---- MODULE Spec2Model ----
(***************************************************************************)
(* webm-convert (mod.ts): the batch orchestrator as a state machine.       *)
(*                                                                         *)
(* The program is one top-level script.  Every `await` on an external      *)
(* process or on a notification suspends it; the code between two awaits   *)
(* runs without interruption and is one action here.  While the script is  *)
(* suspended the event loop runs the interval callbacks (Tick) and the     *)
(* SIGINT listener (Sigint).                                               *)
(***************************************************************************)
EXTENDS Integers, Sequences, FiniteSets, TLC

(* ------------------------------ bounds --------------------------------- *)

\* Largest number of input files on the command line.
MaxFiles == 3

\* Largest value of totalConversionDurationInSeconds the model follows.
MaxTicks == 1

\* Depth at which the self-call of findResolutionOptions is cut off; the
\* runtime's call stack is finite, and a call chain reaching the limit ends
\* in a RangeError.
MaxStack == 3

\* Largest number of times the program is started on one config file.
MaxRuns == 3

\* Number of input files of the batches whose paths or options are varied.
PathFiles == 2

\* Largest stderr length and exit code of an integrity check run on its own.
MaxStderr == 15
MaxStatus == 3

\* What the pipe between a child process and the script holds before a write
\* to it blocks, in the unit of stderrOutput (64 KiB on Linux).
PipeCapacity == 8

\* Largest height handed to the matcher when it is run on its own.
MaxHeight == 1200

(* --------------------------- program constants ------------------------- *)

currentConfigFileVersion == 2

\* Number(...) of text that is not a number, and an out-of-range array read.
NaN == -1
Undefined == -2

availableResolutions == <<360, 480, 720, 1080>>

Binaries == {"ffmpeg", "ffprobe", "ffmpegthumbnailer"}

\* The contents the config file can have when the program starts: no file,
\* only a record of the older schema, the default record this program writes
\* itself on first run, and records an operator has filled in.
OldRecord == [version |-> 1, pushover_token |-> "tok", pushover_user |-> "u1"]

DefaultRecord ==
    [version |-> currentConfigFileVersion, pushover_token |-> "",
     pushover_user |-> <<"">>]

FilledRecord ==
    [version |-> currentConfigFileVersion, pushover_token |-> "tok",
     pushover_users |-> <<"u1", "u2">>]

NoUsersRecord ==
    [version |-> currentConfigFileVersion, pushover_token |-> "tok",
     pushover_users |-> << >>]

NoTokenRecord ==
    [version |-> currentConfigFileVersion, pushover_token |-> "",
     pushover_users |-> <<"u1">>]

InitialStores ==
    { << >>, <<OldRecord>>, <<DefaultRecord>>, <<FilledRecord>>,
      <<OldRecord, FilledRecord>>, <<NoUsersRecord>>, <<NoTokenRecord>> }

\* What ffprobe can print for `stream=height`: nothing, one line with a
\* number, two lines (two programs in the container), or a line of text.
Digits(h) == [digits |-> TRUE, val |-> h]
Text == [digits |-> FALSE, val |-> 0]

ProbeOutputs ==
    { << >>, <<Digits(360)>>, <<Digits(600)>>, <<Digits(1080)>>,
      <<Digits(720), Digits(720)>>, <<Text>> }

\* A path is a sequence of tokens: the separator "/", an extension with its
\* dot, or a piece of a name.  The paths below have no empty segment and no
\* trailing separator.
Extensions == {".mkv", ".mp4"}

Names == <<"x", "y", "z", "w", "v">>

\* The input of file f in the batches whose paths are not varied: a bare
\* file name of its own.
DefaultPath(f) == <<Names[f], ".mkv">>

\* Bare file names, a name without extension, relative paths with a
\* directory, and absolute paths.
InputPaths ==
    { <<"x", ".mkv">>, <<"x", ".mp4">>, <<"y", ".mkv">>, <<"x">>,
      <<"a", "/", "x", ".mkv">>, <<"/", "x", ".mkv">>,
      <<"/", "a", "/", "x", ".mkv">> }

\* The values of the string option -r/--resolution.
ResolutionArgs == {"none", "360", "480", "720", "1080"}

\* Exit codes of a child process, and lengths of its captured stderr (within
\* what the pipe holds).
ExitCodes == {0, 1}
StderrLengths == {0, 1}

(* ------------------------------- state --------------------------------- *)

VARIABLES
    configDB,      \* the documents of the config file, in file order
    config,        \* << >> for null, <<record>> for the record found at start
    installed,     \* the binaries that can be spawned
    nFiles,        \* filesToConvert.length
    pc,            \* where the script is suspended
    i,             \* loop index, 1-based (prettyFileIndex)
    status,        \* per file: "Pending", "Failed" or "Done"
    started,       \* <<file, step>> for every pipeline step that was started
    timers,        \* files whose conversionInterval is active
    conversionDurationInSeconds,       \* per file
    totalConversionDurationInSeconds,
    heightResolution,                  \* of the current file, 0 before the probe
    matchedResolution,                 \* of the current file, 0 before the match
    resolutionOptions,                 \* of the current file
    encExit,       \* per file: exit code of the encoder, -1 while unknown
    inputBad,      \* files whose input integrity check reported a problem
    outputBad,     \* files whose output integrity check reported a problem
    notified,      \* calls of sendPushoverMessage, in order
    posts,         \* HTTP POSTs issued, in order
    resume,        \* what follows the pending sendPushoverMessage
    summaries,     \* number of times doneMessage was printed
    exitCode,      \* -1 while the process runs
    uncaught,      \* the exception that ended the script, "none" otherwise
    interrupted,   \* the SIGINT listener has run
    runs,          \* how many times the program was started on this config file
    stderrOutput,  \* length of an integrity check's captured stderr
    checkStatus,   \* exit code of an integrity check's process
    integrityError,\* what hasIntegrityError returned for them
    resolution,    \* args.resolution, "none" when -r was not given
    filesToConvert,\* the input paths, each a sequence of path tokens
    directories,   \* the inputs that are directories on disk
    source,        \* file.dir + file.base of the current file
    cmd,           \* argument vector of the current file's encoder, << >> before
    written        \* <<file, path>> for every output path handed to a child

vars ==
    << configDB, config, installed, nFiles, pc, i, status, started, timers,
       conversionDurationInSeconds, totalConversionDurationInSeconds,
       matchedResolution, resolutionOptions, encExit, inputBad, outputBad,
       notified, posts, resume, summaries, exitCode, uncaught, interrupted,
       heightResolution, runs, stderrOutput, checkStatus, integrityError,
       resolution, filesToConvert, directories, source, cmd, written >>

\* The state that only the runs of section "restarts" and "single calls"
\* below change.
aux ==
    << runs, stderrOutput, checkStatus, integrityError, resolution,
       filesToConvert, directories >>

\* What is handed to the child processes.
io == << source, cmd, written >>

Files == 1..nFiles

(* --------------------------- pure functions ---------------------------- *)

\* configDB.findOne({version}): the first matching document, or null.
RECURSIVE findOne(_, _)
findOne(docs, version) ==
    IF docs = << >> THEN << >>
    ELSE IF Head(docs).version = version THEN <<Head(docs)>>
    ELSE findOne(Tail(docs), version)

\* Number(new TextDecoder().decode(output)): empty text is 0, one line of
\* digits is its value, anything else is NaN.
NumberOf(out) ==
    IF out = << >> THEN 0
    ELSE IF Len(out) = 1 /\ out[1].digits THEN out[1].val
    ELSE NaN

Abs(x) == IF x < 0 THEN -x ELSE x

\* Math.abs(r - h); NaN and undefined make the difference NaN.
Delta(r, h) == IF h = NaN \/ h = Undefined THEN NaN ELSE Abs(r - h)

\* Math.min(...deltas): NaN as soon as one element is NaN.
RECURSIVE MathMin(_)
MathMin(s) ==
    IF \E k \in 1..Len(s) : s[k] = NaN THEN NaN
    ELSE IF Len(s) = 1 THEN s[1]
    ELSE LET m == MathMin(Tail(s)) IN IF s[1] <= m THEN s[1] ELSE m

\* indexOf replaced by lastIndexOf: of equal deltas the last one is found.
LastIndexOf(s, x) ==
    IF x = NaN \/ ~ \E k \in 1..Len(s) : s[k] = x THEN -1
    ELSE (CHOOSE k \in 1..Len(s) :
              s[k] = x /\ \A j \in (k + 1)..Len(s) : s[j] # x) - 1

\* deltas.indexOf(x), 0-based as in the source; strict equality never finds NaN.
IndexOf(s, x) ==
    IF x = NaN \/ ~ \E k \in 1..Len(s) : s[k] = x THEN -1
    ELSE (CHOOSE k \in 1..Len(s) :
              s[k] = x /\ \A j \in 1..(k - 1) : s[j] # x) - 1

\* availableResolutions[idx], 0-based.
At(idx) ==
    IF idx >= 0 /\ idx < Len(availableResolutions)
    THEN availableResolutions[idx + 1] ELSE Undefined

\* A profile whose thread count is always that of the small resolutions.
ProfileFourThreads(h, crf, tiles, threads) ==
    [matchedResolution |-> h, overflow |-> FALSE,
     options |-> <<"-crf", crf, "-tile-columns", tiles, "-threads", "4">>]

\* One case of the switch: the matched height and its encoder options.
Profile(h, crf, tiles, threads) ==
    [matchedResolution |-> h, overflow |-> FALSE,
     options |-> <<"-crf", crf, "-tile-columns", tiles, "-threads", threads>>]

RangeError == [matchedResolution |-> 0, overflow |-> TRUE, options |-> << >>]

RECURSIVE findResolutionOptionsAt(_, _)
findResolutionOptionsAt(height, depth) ==
    IF depth > MaxStack THEN RangeError
    ELSE IF height = 360 THEN Profile(360, "36", "1", "4")
    ELSE IF height = 480 THEN Profile(480, "33", "1", "4")
    ELSE IF height = 720 THEN Profile(720, "32", "2", "8")
    ELSE IF height = 1080 THEN Profile(1080, "31", "2", "8")
    ELSE LET deltas == [k \in 1..Len(availableResolutions) |->
                            Delta(availableResolutions[k], height)]
             lowest == MathMin(deltas)
             matched == At(IndexOf(deltas, lowest))
         IN  findResolutionOptionsAt(matched, depth + 1)

findResolutionOptions(height) ==
    findResolutionOptionsAt(height, 1)

\* The index of the last separator of a path, 0 when it has none.
LastSlash(p) ==
    IF \E k \in 1..Len(p) : p[k] = "/"
    THEN CHOOSE k \in 1..Len(p) :
             p[k] = "/" /\ \A j \in (k + 1)..Len(p) : p[j] # "/"
    ELSE 0

\* parsePath of the standard library (posix): dir is what precedes the last
\* separator, without it, or the root itself; base is what follows it; ext is
\* the last extension of base unless base begins with it; name is base
\* without ext.
parsePath(p) ==
    LET s == LastSlash(p)
        base == SubSeq(p, s + 1, Len(p))
        hasExt == Len(base) > 1 /\ base[Len(base)] \in Extensions
    IN  [dir |-> IF s = 0 THEN << >>
                 ELSE IF s = 1 THEN <<"/">>
                 ELSE SubSeq(p, 1, s - 1),
         base |-> base,
         ext |-> IF hasExt THEN <<base[Len(base)]>> ELSE << >>,
         name |-> IF hasExt THEN SubSeq(base, 1, Len(base) - 1) ELSE base]

\* file.dir + file.base, the path handed to every child process.
SourceOf(f) ==
    parsePath(filesToConvert[f]).dir \o parsePath(filesToConvert[f]).base

titleName(f) == parsePath(filesToConvert[f]).name

\* `${titleName}/background.jpg` and `${titleName}/${titleName}.webm`.
backgroundFileName(f) == titleName(f) \o <<"/", "background", ".jpg">>

outputFileName(f) == titleName(f) \o <<"/">> \o titleName(f) \o <<".webm">>

\* One argument that is a literal of the source.
Arg(text) == <<text>>

\* The encoder's argument vector without the spread of resolutionOptions.
conversionCmdWithoutOptions(input, options, output) ==
    << Arg("ffmpeg"), Arg("-i"), input, Arg("-y"), Arg("-sn"),
       Arg("-map"), Arg("0"), Arg("-ac"), Arg("8"), Arg("-b:v"), Arg("0"),
       Arg("-speed"), Arg("4"), Arg("-frame-parallel"), Arg("1"),
       Arg("-auto-alt-ref"), Arg("1"), Arg("-lag-in-frames"), Arg("25") >>
    \o <<output>>

\* Lines 199-230: the argument vector of the encoder.
conversionCmd(input, options, output) ==
    << Arg("ffmpeg"), Arg("-i"), input, Arg("-y"), Arg("-sn"),
       Arg("-map"), Arg("0"), Arg("-ac"), Arg("8"), Arg("-b:v"), Arg("0"),
       Arg("-speed"), Arg("4"), Arg("-frame-parallel"), Arg("1"),
       Arg("-auto-alt-ref"), Arg("1"), Arg("-lag-in-frames"), Arg("25") >>
    \o [k \in 1..Len(options) |-> Arg(options[k])]
    \o <<output>>

\* What the decode pass of file f's input can leave on stderr: ffmpeg cannot
\* open a directory and says so.
InputStderr(f) ==
    IF f \in directories THEN StderrLengths \ {0} ELSE StderrLengths

\* hasIntegrityError that also takes a non-zero exit code for a problem.
hasIntegrityErrorOrStatus(stderrLength) == stderrLength > 0 \/ checkStatus # 0

\* hasIntegrityError: the captured stderr is not empty.
hasIntegrityError(stderrLength) == stderrLength > 0

\* The guard with the test of the token left out.
UnconfiguredIgnoresToken ==
    \/ config = << >>
    \/ "pushover_users" \notin DOMAIN config[1]
    \/ Len(config[1].pushover_users) = 0

\* The guard of sendPushoverMessage: no token, or no pushover_users.
Unconfigured ==
    \/ config = << >>
    \/ config[1].pushover_token = ""
    \/ "pushover_users" \notin DOMAIN config[1]
    \/ Len(config[1].pushover_users) = 0

(* ------------------------------ helpers -------------------------------- *)

Running == pc \notin {"boot", "ffmpeg_check", "exited"}

\* Deno.exit(code), or the end of the script with nothing left to run.
Exit(code) ==
    /\ pc' = "exited"
    /\ exitCode' = code

\* An exception nothing catches: the runtime reports it and exits with 1.
Throw(error) ==
    /\ uncaught' = error
    /\ Exit(1)

\* PostsFor with the `sound` field appended whatever isError is.
PostsForAlwaysSound(kind, file, isError) ==
    IF Unconfigured THEN << >>
    ELSE [k \in 1..Len(config[1].pushover_users) |->
              [token |-> config[1].pushover_token,
               user |-> config[1].pushover_users[k],
               message |-> <<kind, file>>,
               sound |-> "intermission"]]

\* sendPushoverMessage up to its await: the call is recorded, and with a
\* token and users one fetch per user is started.
PostsFor(kind, file, isError) ==
    IF Unconfigured THEN << >>
    ELSE [k \in 1..Len(config[1].pushover_users) |->
              [token |-> config[1].pushover_token,
               user |-> config[1].pushover_users[k],
               message |-> <<kind, file>>,
               sound |-> IF isError THEN "intermission" ELSE "none"]]

sendPushoverMessage(kind, file, isError, then) ==
    /\ notified' = Append(notified,
                          [kind |-> kind, file |-> file, is_error |-> isError])
    /\ posts' = posts \o PostsFor(kind, file, isError)
    /\ pc' = "notify"
    /\ resume' = then

\* The head of an iteration: the integrity check of the input is spawned.
BeginFile(f) ==
    /\ i' = f
    /\ started' = started \cup {<<f, "integrity_in">>}
    /\ pc' = "check_in"
    /\ source' = SourceOf(f)
    /\ cmd' = << >>
    /\ heightResolution' = 0
    /\ matchedResolution' = 0
    /\ resolutionOptions' = << >>

(* ------------------------------- Init ---------------------------------- *)

Init ==
    /\ configDB \in InitialStores
    /\ config = << >>
    /\ installed \in SUBSET Binaries
    /\ nFiles \in 0..MaxFiles
    /\ pc = "boot"
    /\ i = 0
    /\ status = [f \in 1..nFiles |-> "Pending"]
    /\ started = {}
    /\ timers = {}
    /\ conversionDurationInSeconds = [f \in 1..nFiles |-> 0]
    /\ totalConversionDurationInSeconds = 0
    /\ heightResolution = 0
    /\ matchedResolution = 0
    /\ resolutionOptions = << >>
    /\ encExit = [f \in 1..nFiles |-> -1]
    /\ inputBad = {}
    /\ outputBad = {}
    /\ notified = << >>
    /\ posts = << >>
    /\ resume = "none"
    /\ summaries = 0
    /\ exitCode = -1
    /\ uncaught = "none"
    /\ interrupted = FALSE
    /\ runs = 1
    /\ stderrOutput = 0
    /\ checkStatus = 0
    /\ integrityError = FALSE
    /\ resolution = "none"
    /\ filesToConvert = [f \in 1..nFiles |-> DefaultPath(f)]
    /\ directories = {}
    /\ source = << >>
    /\ cmd = << >>
    /\ written = {}

(* ------------------------------ actions -------------------------------- *)

\* LoadConfig without the test of line 35: a default record is inserted on
\* every start.
LoadConfigAlwaysInserts ==
    /\ pc = "boot"
    /\ config' = findOne(configDB, currentConfigFileVersion)
    /\ configDB' = Append(configDB, DefaultRecord)
    /\ pc' = "ffmpeg_check"
    /\ UNCHANGED << installed, nFiles, i, status, started, timers,
                    conversionDurationInSeconds,
                    totalConversionDurationInSeconds, heightResolution,
                    matchedResolution,
                    resolutionOptions, encExit, inputBad, outputBad, notified,
                    posts, resume, summaries, exitCode, uncaught, interrupted >>
    /\ UNCHANGED aux
    /\ UNCHANGED io

\* LoadConfig migrating in place: the file is rewritten with the default
\* record alone.
LoadConfigReplaces ==
    /\ pc = "boot"
    /\ config' = findOne(configDB, currentConfigFileVersion)
    /\ configDB' = IF config' = << >> THEN <<DefaultRecord>> ELSE configDB
    /\ pc' = "ffmpeg_check"
    /\ UNCHANGED << installed, nFiles, i, status, started, timers,
                    conversionDurationInSeconds,
                    totalConversionDurationInSeconds, heightResolution,
                    matchedResolution,
                    resolutionOptions, encExit, inputBad, outputBad, notified,
                    posts, resume, summaries, exitCode, uncaught, interrupted >>
    /\ UNCHANGED aux
    /\ UNCHANGED io

\* Lines 29-48: the record of the current version is looked up once; when
\* there is none a default record is inserted and saved.  `config` keeps the
\* result of the lookup.
LoadConfig ==
    /\ pc = "boot"
    /\ config' = findOne(configDB, currentConfigFileVersion)
    /\ configDB' = IF config' = << >>
                   THEN Append(configDB, DefaultRecord) ELSE configDB
    /\ pc' = "ffmpeg_check"
    /\ UNCHANGED << installed, nFiles, i, status, started, timers,
                    conversionDurationInSeconds,
                    totalConversionDurationInSeconds, heightResolution,
                    matchedResolution,
                    resolutionOptions, encExit, inputBad, outputBad, notified,
                    posts, resume, summaries, exitCode, uncaught, interrupted >>
    /\ UNCHANGED aux
    /\ UNCHANGED io

\* Lines 50-108: the ffmpeg check (its failure is caught and exits with 1),
\* the arguments (no file: usage and exit 1), the spinner, the SIGINT
\* listener and the start of the five-second wait.
FfmpegCheck ==
    /\ pc = "ffmpeg_check"
    /\ IF "ffmpeg" \notin installed \/ nFiles = 0
       THEN Exit(1)
       ELSE pc' = "wait5" /\ exitCode' = exitCode
    /\ UNCHANGED << configDB, config, installed, nFiles, i, status, started,
                    timers, conversionDurationInSeconds,
                    totalConversionDurationInSeconds, heightResolution,
                    matchedResolution,
                    resolutionOptions, encExit, inputBad, outputBad, notified,
                    posts, resume, summaries, uncaught, interrupted >>
    /\ UNCHANGED aux
    /\ UNCHANGED io

\* StartBatch looking the config record up again before the loop.
StartBatchReloadsConfig ==
    /\ pc = "wait5"
    /\ BeginFile(1)
    /\ config' = findOne(configDB, currentConfigFileVersion)
    /\ UNCHANGED << configDB, installed, nFiles, status, timers,
                    conversionDurationInSeconds,
                    totalConversionDurationInSeconds, encExit, inputBad,
                    outputBad, notified, posts, resume, summaries, exitCode,
                    uncaught, interrupted >>
    /\ UNCHANGED aux
    /\ UNCHANGED written

\* Lines 110-123: the wait is over and the loop is entered with the first file.
StartBatch ==
    /\ pc = "wait5"
    /\ BeginFile(1)
    /\ UNCHANGED << configDB, config, installed, nFiles, status, timers,
                    conversionDurationInSeconds,
                    totalConversionDurationInSeconds, encExit, inputBad,
                    outputBad, notified, posts, resume, summaries, exitCode,
                    uncaught, interrupted >>
    /\ UNCHANGED aux
    /\ UNCHANGED written

\* InputChecked with the `continue` of line 128 (and the notification before
\* it) left out: the failure is recorded and the pipeline goes on.
InputCheckedFallsThrough ==
    /\ pc = "check_in"
    /\ \E stderrLength \in InputStderr(i) :
         /\ inputBad' = IF hasIntegrityError(stderrLength)
                        THEN inputBad \cup {i} ELSE inputBad
         /\ status' = IF hasIntegrityError(stderrLength)
                      THEN [status EXCEPT ![i] = "Failed"] ELSE status
    /\ "ffprobe" \in installed
    /\ started' = started \cup {<<i, "probe">>}
    /\ pc' = "probe"
    /\ UNCHANGED << configDB, config, installed, nFiles, i, timers,
                    conversionDurationInSeconds,
                    totalConversionDurationInSeconds, heightResolution,
                    matchedResolution,
                    resolutionOptions, encExit, outputBad, notified, posts,
                    resume, summaries, exitCode, uncaught, interrupted >>
    /\ UNCHANGED aux
    /\ UNCHANGED io

\* Lines 123-147: the input's integrity check has ended.  A problem fails the
\* file, notifies and continues; otherwise ffprobe is spawned.
InputChecked ==
    /\ pc = "check_in"
    /\ \E stderrLength \in InputStderr(i) :
         IF hasIntegrityError(stderrLength)
         THEN /\ inputBad' = inputBad \cup {i}
              /\ status' = [status EXCEPT ![i] = "Failed"]
              /\ sendPushoverMessage("error", i, TRUE, "next")
              /\ UNCHANGED << started, exitCode, uncaught >>
         ELSE /\ IF "ffprobe" \notin installed
                 THEN Throw("NotFound") /\ started' = started
                 ELSE /\ started' = started \cup {<<i, "probe">>}
                      /\ pc' = "probe"
                      /\ UNCHANGED << exitCode, uncaught >>
              /\ UNCHANGED << inputBad, status, notified, posts, resume >>
    /\ UNCHANGED << configDB, config, installed, nFiles, i, timers,
                    conversionDurationInSeconds,
                    totalConversionDurationInSeconds, heightResolution,
                    matchedResolution,
                    resolutionOptions, encExit, outputBad, summaries,
                    interrupted >>
    /\ UNCHANGED aux
    /\ UNCHANGED io

\* Lines 147-183: ffprobe has ended; its output is converted and matched, the
\* output directory is made, the interval is set and the thumbnailer spawned.
Probed ==
    /\ pc = "probe"
    /\ \E out \in ProbeOutputs :
         LET found == findResolutionOptions(NumberOf(out)) IN
         /\ heightResolution' = NumberOf(out)
         /\ IF found.overflow
            THEN /\ Throw("RangeError")
                 /\ UNCHANGED << matchedResolution, resolutionOptions, started,
                                 timers, written >>
            ELSE /\ matchedResolution' = found.matchedResolution
                 /\ resolutionOptions' = found.options
                 /\ timers' = timers \cup {i}
                 /\ IF "ffmpegthumbnailer" \notin installed
                    THEN /\ Throw("NotFound")
                         /\ started' = started \cup
                                {<<i, "ensure_dir">>, <<i, "timer">>}
                         /\ written' = written
                    ELSE /\ started' = started \cup
                                {<<i, "ensure_dir">>, <<i, "timer">>,
                                 <<i, "thumbnail">>}
                         /\ written' = written \cup
                                {<<i, backgroundFileName(i)>>}
                         /\ pc' = "thumb"
                         /\ UNCHANGED << exitCode, uncaught >>
    /\ UNCHANGED << configDB, config, installed, nFiles, i, status,
                    conversionDurationInSeconds,
                    totalConversionDurationInSeconds, encExit, inputBad,
                    outputBad, notified, posts, resume, summaries,
                    interrupted >>
    /\ UNCHANGED aux
    /\ UNCHANGED << source, cmd >>

\* Lines 183-233: the thumbnailer has ended (its status is not read) and the
\* encoder is spawned with its argument vector.
ThumbDone ==
    /\ pc = "thumb"
    /\ started' = started \cup {<<i, "encode">>}
    /\ cmd' = conversionCmd(source, resolutionOptions, outputFileName(i))
    /\ written' = written \cup {<<i, outputFileName(i)>>}
    /\ pc' = "encode"
    /\ UNCHANGED << configDB, config, installed, nFiles, i, status, timers,
                    conversionDurationInSeconds,
                    totalConversionDurationInSeconds, heightResolution,
                    matchedResolution,
                    resolutionOptions, encExit, inputBad, outputBad, notified,
                    posts, resume, summaries, exitCode, uncaught, interrupted >>
    /\ UNCHANGED aux
    /\ UNCHANGED source

\* EncodeDone without the awaits of lines 233 and 236: the loop goes to the
\* next file while the encoder of this one is still running.
EncodeNotAwaited ==
    /\ pc = "encode"
    /\ i < nFiles
    /\ BeginFile(i + 1)
    /\ UNCHANGED << configDB, config, installed, nFiles, status, timers,
                    conversionDurationInSeconds,
                    totalConversionDurationInSeconds, encExit, inputBad,
                    outputBad, notified, posts, resume, summaries, exitCode,
                    uncaught, interrupted >>
    /\ UNCHANGED aux
    /\ UNCHANGED written

\* Lines 233-236: the encoder has ended with some exit code, which the script
\* does not read, and the integrity check of the output is spawned.
EncodeDone ==
    /\ pc = "encode"
    /\ \E code \in ExitCodes : encExit' = [encExit EXCEPT ![i] = code]
    /\ started' = started \cup {<<i, "integrity_out">>}
    /\ pc' = "check_out"
    /\ UNCHANGED << configDB, config, installed, nFiles, i, status, timers,
                    conversionDurationInSeconds,
                    totalConversionDurationInSeconds, heightResolution,
                    matchedResolution,
                    resolutionOptions, inputBad, outputBad, notified, posts,
                    resume, summaries, exitCode, uncaught, interrupted >>
    /\ UNCHANGED aux
    /\ UNCHANGED io

\* Lines 236-252: the output's integrity check has ended.  A problem fails
\* the file, notifies and continues, and the interval stays set; otherwise
\* the interval is cleared and the success is notified.
OutputChecked ==
    /\ pc = "check_out"
    /\ \E stderrLength \in StderrLengths :
         IF hasIntegrityError(stderrLength)
         THEN /\ outputBad' = outputBad \cup {i}
              /\ status' = [status EXCEPT ![i] = "Failed"]
              /\ sendPushoverMessage("error", i, TRUE, "next")
              /\ timers' = timers
         ELSE /\ timers' = timers \ {i}
              /\ status' = [status EXCEPT ![i] = "Done"]
              /\ sendPushoverMessage("success", i, FALSE, "next")
              /\ outputBad' = outputBad
    /\ UNCHANGED << configDB, config, installed, nFiles, i, started,
                    conversionDurationInSeconds,
                    totalConversionDurationInSeconds, heightResolution,
                    matchedResolution,
                    resolutionOptions, encExit, inputBad, summaries, exitCode,
                    uncaught, interrupted >>
    /\ UNCHANGED aux
    /\ UNCHANGED io

\* What a pending sendPushoverMessage can end with: without token or users it
\* has returned at once; otherwise every fetch resolves (whatever the HTTP
\* status), or one rejects and nothing catches the rejection.
FetchOutcomes ==
    IF Unconfigured THEN {"returned"} ELSE {"2xx", "non2xx", "rejected"}

\* Lines 128, 241, 252-260 and the end of the script: the awaited
\* sendPushoverMessage has ended.  After a file's message the loop goes on
\* with the next file, or leaves the loop, prints the summary and notifies it;
\* after the summary's message the script is over, and the process ends once
\* no interval is left.
NotifyReturn ==
    /\ pc = "notify"
    /\ \E outcome \in FetchOutcomes :
         IF outcome = "rejected"
         THEN /\ Throw("TypeError")
              /\ UNCHANGED << i, started, source, cmd, heightResolution,
                              matchedResolution,
                              resolutionOptions, notified, posts, resume,
                              summaries >>
         ELSE IF resume = "next" /\ i < nFiles
         THEN /\ BeginFile(i + 1)
              /\ UNCHANGED << notified, posts, resume, summaries, exitCode,
                              uncaught >>
         ELSE IF resume = "next"
         THEN /\ summaries' = summaries + 1
              /\ sendPushoverMessage("summary", 0, FALSE, "end")
              /\ UNCHANGED << i, started, source, cmd, heightResolution,
                              matchedResolution,
                              resolutionOptions, exitCode, uncaught >>
         ELSE /\ IF timers = {}
                 THEN Exit(0)
                 ELSE pc' = "hung" /\ exitCode' = exitCode
              /\ UNCHANGED << i, started, source, cmd, heightResolution,
                              matchedResolution,
                              resolutionOptions, notified, posts, resume,
                              summaries, uncaught >>
    /\ UNCHANGED << configDB, config, installed, nFiles, status, timers,
                    conversionDurationInSeconds,
                    totalConversionDurationInSeconds, encExit, inputBad,
                    outputBad, interrupted >>
    /\ UNCHANGED aux
    /\ UNCHANGED written

\* Lines 160-166: the interval callback of file f, once per second while its
\* interval is set.
Tick(f) ==
    /\ Running
    /\ f \in timers
    /\ totalConversionDurationInSeconds < MaxTicks
    /\ conversionDurationInSeconds' =
           [conversionDurationInSeconds EXCEPT ![f] = @ + 1]
    /\ totalConversionDurationInSeconds' = totalConversionDurationInSeconds + 1
    /\ UNCHANGED << configDB, config, installed, nFiles, pc, i, status,
                    started, timers, heightResolution, matchedResolution,
                    resolutionOptions,
                    encExit, inputBad, outputBad, notified, posts, resume,
                    summaries, exitCode, uncaught, interrupted >>
    /\ UNCHANGED aux
    /\ UNCHANGED io

\* The listener without the Deno.exit(130) of line 104: it only prints.
SigintPrintsOnly ==
    /\ Running
    /\ interrupted' = TRUE
    /\ UNCHANGED << configDB, config, installed, nFiles, pc, i, status,
                    started, timers, conversionDurationInSeconds,
                    totalConversionDurationInSeconds, heightResolution,
                    matchedResolution,
                    resolutionOptions, encExit, inputBad, outputBad, notified,
                    posts, resume, summaries, exitCode, uncaught >>
    /\ UNCHANGED aux
    /\ UNCHANGED io

\* Lines 101-105: the SIGINT listener, registered before the wait.
Sigint ==
    /\ Running
    /\ interrupted' = TRUE
    /\ Exit(130)
    /\ UNCHANGED << configDB, config, installed, nFiles, i, status, started,
                    timers, conversionDurationInSeconds,
                    totalConversionDurationInSeconds, heightResolution,
                    matchedResolution,
                    resolutionOptions, encExit, inputBad, outputBad, notified,
                    posts, resume, summaries, uncaught >>
    /\ UNCHANGED aux
    /\ UNCHANGED io

Next ==
    \/ LoadConfig
    \/ FfmpegCheck
    \/ StartBatch
    \/ InputChecked
    \/ Probed
    \/ ThumbDone
    \/ EncodeDone
    \/ OutputChecked
    \/ NotifyReturn
    \/ \E f \in Files : Tick(f)
    \/ Sigint

Spec == Init /\ [][Next]_vars

(* --------------------- batches on varied arguments --------------------- *)

\* The start of a run on PathFiles files, with a filled-in config record and
\* every binary installed, but for the arguments.
Arguments ==
    /\ configDB = <<FilledRecord>>
    /\ config = << >>
    /\ installed = Binaries
    /\ nFiles = PathFiles
    /\ pc = "boot"
    /\ i = 0
    /\ status = [f \in 1..nFiles |-> "Pending"]
    /\ started = {}
    /\ timers = {}
    /\ conversionDurationInSeconds = [f \in 1..nFiles |-> 0]
    /\ totalConversionDurationInSeconds = 0
    /\ heightResolution = 0
    /\ matchedResolution = 0
    /\ resolutionOptions = << >>
    /\ encExit = [f \in 1..nFiles |-> -1]
    /\ inputBad = {}
    /\ outputBad = {}
    /\ notified = << >>
    /\ posts = << >>
    /\ resume = "none"
    /\ summaries = 0
    /\ exitCode = -1
    /\ uncaught = "none"
    /\ interrupted = FALSE
    /\ runs = 1
    /\ stderrOutput = 0
    /\ checkStatus = 0
    /\ integrityError = FALSE
    /\ source = << >>
    /\ cmd = << >>
    /\ written = {}

\* Lines 82-84: the file arguments are any paths; none is a directory.
InitPaths ==
    /\ Arguments
    /\ resolution = "none"
    /\ filesToConvert \in [1..PathFiles -> InputPaths]
    /\ directories = {}

SpecPaths == InitPaths /\ [][Next]_vars

\* Lines 72-84: -r is given or not, and any of the file arguments can be a
\* directory.
InitArgs ==
    /\ Arguments
    /\ resolution \in ResolutionArgs
    /\ filesToConvert = [f \in 1..PathFiles |-> DefaultPath(f)]
    /\ directories \in SUBSET (1..PathFiles)

SpecArgs == InitArgs /\ [][Next]_vars

(* ------------------- single calls of the pure functions ---------------- *)

\* The state of a process in which nothing has happened yet, but for pc,
\* heightResolution, stderrOutput and checkStatus.
Blank ==
    /\ configDB = << >>
    /\ config = << >>
    /\ installed = Binaries
    /\ nFiles = 0
    /\ i = 0
    /\ status = << >>
    /\ started = {}
    /\ timers = {}
    /\ conversionDurationInSeconds = << >>
    /\ totalConversionDurationInSeconds = 0
    /\ matchedResolution = 0
    /\ resolutionOptions = << >>
    /\ encExit = << >>
    /\ inputBad = {}
    /\ outputBad = {}
    /\ notified = << >>
    /\ posts = << >>
    /\ resume = "none"
    /\ summaries = 0
    /\ exitCode = -1
    /\ uncaught = "none"
    /\ interrupted = FALSE
    /\ runs = 1
    /\ integrityError = FALSE
    /\ resolution = "none"
    /\ filesToConvert = << >>
    /\ directories = {}
    /\ source = << >>
    /\ cmd = << >>
    /\ written = {}

\* The values Number(...) of ffprobe's output can have.
MatchInputs == (0..MaxHeight) \cup {NaN}

InitMatch ==
    /\ Blank
    /\ pc = "match"
    /\ heightResolution \in MatchInputs
    /\ stderrOutput = 0
    /\ checkStatus = 0

\* Lines 152-155: one call of findResolutionOptions.
Match ==
    /\ pc = "match"
    /\ LET found == findResolutionOptions(heightResolution) IN
       IF found.overflow
       THEN /\ Throw("RangeError")
            /\ UNCHANGED << matchedResolution, resolutionOptions >>
       ELSE /\ matchedResolution' = found.matchedResolution
            /\ resolutionOptions' = found.options
            /\ pc' = "matched"
            /\ UNCHANGED << exitCode, uncaught >>
    /\ UNCHANGED << configDB, config, installed, nFiles, i, status, started,
                    timers, conversionDurationInSeconds,
                    totalConversionDurationInSeconds, heightResolution,
                    encExit, inputBad, outputBad, notified, posts, resume,
                    summaries, interrupted >>
    /\ UNCHANGED aux
    /\ UNCHANGED io

SpecMatch == InitMatch /\ [][Match]_vars

InitCheck ==
    /\ Blank
    /\ pc = "check"
    /\ heightResolution = 0
    /\ stderrOutput \in 0..MaxStderr
    /\ checkStatus \in 0..MaxStatus

\* Lines 303-325: one call of hasIntegrityError, on a decode pass that ends
\* with checkStatus after writing stderrOutput bytes to stderr.  stderr is a
\* pipe that is read only after `await status()` (lines 322-324): a pass that
\* writes more than the pipe holds blocks in its write and never exits, and
\* the script waits for its exit for ever.
Check ==
    /\ pc = "check"
    /\ IF stderrOutput > PipeCapacity
       THEN /\ pc' = "blocked"
            /\ integrityError' = integrityError
       ELSE /\ integrityError' = hasIntegrityError(stderrOutput)
            /\ pc' = "checked"
    /\ UNCHANGED << configDB, config, installed, nFiles, i, status, started,
                    timers, conversionDurationInSeconds,
                    totalConversionDurationInSeconds, heightResolution,
                    matchedResolution, resolutionOptions, encExit, inputBad,
                    outputBad, notified, posts, resume, summaries, exitCode,
                    uncaught, interrupted, runs, stderrOutput, checkStatus,
                    resolution, filesToConvert, directories >>
    /\ UNCHANGED io

SpecCheck == InitCheck /\ [][Check]_vars

(* ------------------------------ restarts -------------------------------- *)

\* Line 46 ("Restart program ..."): the process has ended and the program is
\* started again on the same config file, with some arguments.
Restart ==
    /\ pc = "exited"
    /\ runs < MaxRuns
    /\ runs' = runs + 1
    /\ pc' = "boot"
    /\ config' = << >>
    /\ \E n \in 0..MaxFiles :
         /\ nFiles' = n
         /\ filesToConvert' = [f \in 1..n |-> DefaultPath(f)]
         /\ status' = [f \in 1..n |-> "Pending"]
         /\ conversionDurationInSeconds' = [f \in 1..n |-> 0]
         /\ encExit' = [f \in 1..n |-> -1]
    /\ i' = 0
    /\ started' = {}
    /\ timers' = {}
    /\ totalConversionDurationInSeconds' = 0
    /\ heightResolution' = 0
    /\ matchedResolution' = 0
    /\ resolutionOptions' = << >>
    /\ inputBad' = {}
    /\ outputBad' = {}
    /\ notified' = << >>
    /\ posts' = << >>
    /\ resume' = "none"
    /\ summaries' = 0
    /\ exitCode' = -1
    /\ uncaught' = "none"
    /\ interrupted' = FALSE
    /\ source' = << >>
    /\ cmd' = << >>
    /\ written' = {}
    /\ UNCHANGED << configDB, installed, stderrOutput, checkStatus,
                    integrityError, resolution, directories >>

\* The starts of the program one after the other, each followed as far as the
\* five-second wait: the batch after it leaves the config file alone.
NextRuns ==
    \/ LoadConfig
    \/ FfmpegCheck
    \/ Sigint
    \/ Restart

SpecRuns == Init /\ [][NextRuns]_vars

(* ------------------------------- claims -------------------------------- *)

\* The calls of sendPushoverMessage made for file f.
NotesFor(f) == { k \in 1..Len(notified) : notified[k].file = f }

ErrorNoted(f) ==
    \E k \in NotesFor(f) : notified[k].kind = "error" /\ notified[k].is_error

SuccessNoted(f) == \E k \in NotesFor(f) : notified[k].kind = "success"

Terminal(f) == status[f] \in {"Failed", "Done"}

\* The script has ended, and not by the SIGINT listener.
EndedUninterrupted == pc = "exited" /\ ~interrupted

\* C1: a file that failed never ends the batch: once a run that was not
\* interrupted is over, the pipeline of the file after every failed file has
\* been started.
C1_FailureNeverEndsBatch ==
    \A f \in Files :
        (status[f] = "Failed" /\ f < nFiles /\ EndedUninterrupted)
            => <<f + 1, "integrity_in">> \in started

\* C2: a batch that has begun and was not interrupted has printed exactly one
\* final summary by the time the process ends, and never more than one.
C2_SummaryAtEnd ==
    /\ summaries <= 1
    /\ (EndedUninterrupted /\ started # {}) => summaries = 1

\* C3: a file whose encoder exited with a non-zero code ends Failed, with an
\* error notification and without a success notification.
C3_EncoderFailureFailsFile ==
    \A f \in Files :
        (encExit[f] > 0 /\ status[f] # "Pending")
            => status[f] = "Failed" /\ ErrorNoted(f) /\ ~SuccessNoted(f)

\* C4: a file whose output integrity check reported a problem ends Failed,
\* with an error notification and without a success notification, and the
\* next file is processed.
C4_OutputFailureFailsFileAndContinues ==
    \A f \in outputBad :
        /\ status[f] = "Failed"
        /\ ErrorNoted(f)
        /\ ~SuccessNoted(f)
        /\ (f < nFiles /\ EndedUninterrupted)
               => <<f + 1, "integrity_in">> \in started

\* C5: a file whose input integrity check reported a problem is Failed, has
\* exactly one notification, an error, and none of probe, output directory,
\* timer, thumbnail, encode or output check was ever started for it.
C5_InputFailureStopsPipeline ==
    \A f \in inputBad :
        /\ status[f] = "Failed"
        /\ Cardinality(NotesFor(f)) = 1
        /\ ErrorNoted(f)
        /\ \A e \in started : e[1] = f => e[2] = "integrity_in"
        /\ f \notin timers
        /\ conversionDurationInSeconds[f] = 0

\* C5 witness: the first file failed its input check and the second file is
\* being encoded.
C5_Witness == 1 \in inputBad /\ i = 2 /\ pc = "encode"

\* C6: while the process runs at most one interval is set, and it is the
\* current file's: no interval of an earlier file is left.
C6_AtMostOneTimer ==
    pc # "exited" => Cardinality(timers) <= 1 /\ \A f \in timers : f = i

\* C7: the files are taken in the order given, one at a time: the files that
\* have a step started are exactly the first i, no step of a file was started
\* before every earlier file was Failed or Done, and no later file has ended.
C7_SequentialOrder ==
    /\ \A e \in started :
           /\ e[1] \in 1..i
           /\ \A k \in 1..(e[1] - 1) : Terminal(k)
    /\ \A f \in 1..i : <<f, "integrity_in">> \in started
    /\ \A f \in Files : f > i => status[f] = "Pending"

\* C7 witness: the third file is being encoded after the first failed and the
\* second was converted.
C7_Witness ==
    /\ nFiles = 3
    /\ <<3, "encode">> \in started
    /\ status[1] = "Failed"
    /\ status[2] = "Done"

\* C8: once the SIGINT listener has run the process has exited with code 130,
\* and from then on no pipeline step is started, no summary is printed and
\* nothing is handed to the notifier.
C8_InterruptStopsBatch ==
    /\ [](interrupted => (pc = "exited" /\ exitCode = 130))
    /\ [][interrupted =>
             (started' = started /\ summaries' = summaries
              /\ notified' = notified /\ pc' = "exited")]_vars

\* C8 witness: the interrupt came while the first of several files was being
\* encoded; no summary was printed.
C8_Witness ==
    /\ interrupted
    /\ nFiles > 1
    /\ <<1, "encode">> \in started
    /\ status[1] = "Pending"
    /\ summaries = 0

\* C9: after an interrupt an "interrupted" message has been handed to the
\* notifier.
C9_InterruptNotified ==
    interrupted => \E k \in 1..Len(notified) : notified[k].kind = "interrupted"

\* C10: an external command that cannot be started fails its file only: the
\* file is Failed and the script is not ended by the error.
C10_SpawnErrorFailsFileOnly ==
    uncaught = "NotFound" => (status[i] = "Failed" /\ pc # "exited")

\* C11: a fetch that rejects is not raised to the script: no run is ended by
\* the rejection of a notification's fetch.
C11_DeliveryFailureNotRaised == uncaught # "TypeError"

\* The record read at start has no token or no recipients, or there was no
\* record of the current version.
NoCredentialOrRecipient ==
    /\ pc # "boot"
    /\ \/ config = << >>
       \/ config[1].pushover_token = ""
       \/ "pushover_users" \notin DOMAIN config[1]
       \/ config[1].pushover_users = << >>

\* C12: without a token or without recipients no HTTP request is ever issued
\* and no call of the notifier ends in an error.
C12_UnconfiguredNoRequest ==
    NoCredentialOrRecipient => (posts = << >> /\ uncaught # "TypeError")

\* C12 witness: the config record was created in this run, the first file's
\* notification has returned and the second file is being checked.
C12_Witness ==
    /\ config = << >>
    /\ configDB # << >>
    /\ Len(notified) = 1
    /\ i = 2
    /\ pc = "check_in"

\* The record read at start has a token and at least one recipient.
CredentialAndRecipients == pc # "boot" /\ ~NoCredentialOrRecipient

\* C13: with a token and recipients R every call of the notifier issues
\* exactly |R| POSTs, in the order of R, each with the token, its recipient and
\* the call's message, and with the sound field exactly when the call is an
\* error.
C13_OnePostPerRecipient ==
    CredentialAndRecipients =>
        LET R == config[1].pushover_users IN
        /\ Len(posts) = Len(notified) * Len(R)
        /\ \A k \in 1..Len(notified) : \A j \in 1..Len(R) :
               LET post == posts[(k - 1) * Len(R) + j] IN
               /\ post.token = config[1].pushover_token
               /\ post.user = R[j]
               /\ post.message = <<notified[k].kind, notified[k].file>>
               /\ post.sound = IF notified[k].is_error
                               THEN "intermission" ELSE "none"

\* C13 witness: two recipients, and both an error and a success were notified.
C13_Witness ==
    /\ CredentialAndRecipients
    /\ Len(config[1].pushover_users) = 2
    /\ \E k \in 1..Len(notified) : notified[k].is_error
    /\ \E k \in 1..Len(notified) : notified[k].kind = "success"

Supported == {360, 480, 720, 1080}

Options(crf, tiles, threads) ==
    <<"-crf", crf, "-tile-columns", tiles, "-threads", threads>>

\* The table of section 4.2: quality, tiling and threads of a height.
TableOptions(h) ==
    IF h = 360 THEN Options("36", "1", "4")
    ELSE IF h = 480 THEN Options("33", "1", "4")
    ELSE IF h = 720 THEN Options("32", "2", "8")
    ELSE Options("31", "2", "8")

\* C14: for a supported height the matcher returns that height with the
\* table's parameters, and it returns.
C14_ExactMatch ==
    heightResolution \in Supported =>
        /\ pc # "exited"
        /\ pc = "matched" =>
               /\ matchedResolution = heightResolution
               /\ resolutionOptions = TableOptions(heightResolution)

\* C14 witness: the matcher has returned for 720.
C14_Witness ==
    pc = "matched" /\ heightResolution = 720 /\ matchedResolution = 720

Distance(a, b) == IF a < b THEN b - a ELSE a - b

\* C15: for an integer height that is not supported the matcher returns the
\* profile of a supported height at the least distance, the lower one of two
\* at the same distance: 600 gives 480, 420 gives 360 and 900 gives 720.
C15_NearestLowerOnTie ==
    (heightResolution \notin Supported /\ heightResolution # NaN) =>
        /\ pc # "exited"
        /\ pc = "matched" =>
               /\ matchedResolution \in Supported
               /\ resolutionOptions = TableOptions(matchedResolution)
               /\ \A r \in Supported :
                      \/ Distance(matchedResolution, heightResolution)
                             < Distance(r, heightResolution)
                      \/ /\ Distance(matchedResolution, heightResolution)
                                = Distance(r, heightResolution)
                         /\ matchedResolution <= r
               /\ heightResolution = 600 => matchedResolution = 480
               /\ heightResolution = 420 => matchedResolution = 360
               /\ heightResolution = 900 => matchedResolution = 720

\* C15 witness: the matcher has returned 480 for 600, which is as far from
\* 720.
C15_Witness ==
    pc = "matched" /\ heightResolution = 600 /\ matchedResolution = 480

\* The records of the current version, in file order.
CurrentRecords(docs) ==
    SelectSeq(docs, LAMBDA r : r.version = currentConfigFileVersion)

\* C16: the first start on an empty file creates exactly one record, of the
\* current version; every start leaves the file with exactly one record of
\* the current version, and once there is one no start inserts or changes one.
C16_OneRecordAcrossRuns ==
    /\ [](pc # "boot" => Len(CurrentRecords(configDB)) = 1)
    /\ [][(pc = "boot" /\ configDB = << >>) =>
              (Len(configDB') = 1
               /\ configDB'[1].version = currentConfigFileVersion)]_vars
    /\ [][CurrentRecords(configDB) # << >> =>
              CurrentRecords(configDB') = CurrentRecords(configDB)]_vars

\* C16 witness: the third start has found the record the first start created.
C16_Witness ==
    /\ runs = 3
    /\ pc = "ffmpeg_check"
    /\ configDB = <<DefaultRecord>>
    /\ config = <<DefaultRecord>>

\* C17: a start that finds no record of the current version appends one, with
\* an empty token, and no start changes or removes a record that was there.
C17_OtherVersionKept ==
    /\ [][(pc = "boot" /\ CurrentRecords(configDB) = << >>) =>
              /\ Len(configDB') = Len(configDB) + 1
              /\ configDB'[Len(configDB')].version = currentConfigFileVersion
              /\ configDB'[Len(configDB')].pushover_token = ""]_vars
    /\ [][\A k \in 1..Len(configDB) :
              Len(configDB') >= k /\ configDB'[k] = configDB[k]]_vars

\* C17 witness: the file held a version 1 record, and after two starts it
\* holds that record and one of the current version.
C17_Witness ==
    /\ runs = 2
    /\ pc = "ffmpeg_check"
    /\ Len(configDB) = 2
    /\ configDB[1] = OldRecord
    /\ configDB[2].version = currentConfigFileVersion

AppConfigFields == {"version", "pushover_token", "pushover_users"}

\* C18: the record written on first run has exactly the fields of AppConfig,
\* the recipients under the name the notifier reads.
C18_DefaultRecordShape ==
    (pc # "boot" /\ config = << >>) =>
        DOMAIN configDB[Len(configDB)] = AppConfigFields

\* C19: after the lookup and first-run initialization no step changes the
\* config value or the config file.
C19_ConfigFrozen ==
    [][pc # "boot" => (config' = config /\ configDB' = configDB)]_vars

\* C19 witness: a run that created the config record has converted its files,
\* printed the summary and ended.
C19_Witness ==
    /\ pc = "exited"
    /\ exitCode = 0
    /\ summaries = 1
    /\ config = << >>
    /\ configDB = <<DefaultRecord>>

FailedFiles == { f \in Files : status[f] = "Failed" }

\* C21: the summary counts the failed files: in a batch of three files in
\* which only the second file's encoder exits with a non-zero code, once the
\* summary is printed files 1 and 3 are Done and exactly one file is Failed.
C21_SummaryCountsFailed ==
    (summaries = 1 /\ nFiles = 3 /\ encExit = <<0, 1, 0>>
        /\ inputBad = {} /\ outputBad = {})
        => /\ status[1] = "Done"
           /\ status[3] = "Done"
           /\ Cardinality(FailedFiles) = 1

\* C24: the encoder of a file is started whatever became of its thumbnailer:
\* a run that was not interrupted has not ended between the setting of a
\* file's interval (just before the thumbnailer) and the start of its encoder.
C24_ThumbnailBestEffort ==
    \A f \in Files :
        (<<f, "timer">> \in started /\ EndedUninterrupted)
            => <<f, "encode">> \in started

\* C26: once the summary has been printed and its notification has returned,
\* the process has ended with exit code 0.
C26_ExitsZeroAfterSummary ==
    (summaries = 1 /\ resume = "end" /\ pc # "notify" /\ ~interrupted
        /\ uncaught = "none")
        => (pc = "exited" /\ exitCode = 0)

\* C27: for every value the probe can hand to the matcher, NaN and 0 included,
\* the matcher returns, and what it returns is a supported height with the
\* table's parameters.
C27_MatcherTotal ==
    pc # "match" =>
        /\ uncaught = "none"
        /\ pc = "matched"
        /\ matchedResolution \in Supported
        /\ resolutionOptions = TableOptions(matchedResolution)

\* C28: the integrity check never waits for the exit of a decode pass that is
\* itself blocked writing to the pipe.
C28_CheckNeverBlocks == pc # "blocked"

\* C22: for an input that is a directory no step is ever started, nothing is
\* notified, and it is not marked Failed.
C22_DirectorySkipped ==
    \A f \in directories :
        /\ \A e \in started : e[1] # f
        /\ NotesFor(f) = {}
        /\ status[f] # "Failed"

\* The height named by -r.
ForcedHeight ==
    IF resolution = "360" THEN 360
    ELSE IF resolution = "480" THEN 480
    ELSE IF resolution = "720" THEN 720
    ELSE 1080

\* C23: with -r given, the encoder of every file is started with the
\* parameters of the height named by -r, whatever the probe found.
C23_ResolutionForced ==
    (resolution # "none" /\ cmd # << >>) =>
        /\ matchedResolution = ForcedHeight
        /\ resolutionOptions = TableOptions(ForcedHeight)

\* The flags every encode gets, and the flags of a profile.
FixedFlags ==
    {"-y", "-sn", "-map", "-ac", "-b:v", "-speed", "-frame-parallel",
     "-auto-alt-ref", "-lag-in-frames"}

ProfileFlags == {"-crf", "-tile-columns", "-threads"}

\* The last segment of a path without its extension.
TitleOf(p) ==
    LET segment == CHOOSE q \in { SubSeq(p, k, Len(p)) : k \in 1..Len(p) } :
                       /\ \A k \in 1..Len(q) : q[k] # "/"
                       /\ Len(q) = Len(p) \/ p[Len(p) - Len(q)] = "/"
    IN  IF Len(segment) > 1 /\ segment[Len(segment)] \in Extensions
        THEN SubSeq(segment, 1, Len(segment) - 1) ELSE segment

C29_SourceIsInput ==
    i > 0 =>
        /\ source = filesToConvert[i]
        /\ cmd # << >> =>
               \E k \in 1..(Len(cmd) - 1) :
                   cmd[k] = <<"-i">> /\ cmd[k + 1] = filesToConvert[i]

\* C30: two files of a batch that were given different paths are never handed
\* the same output path.
C30_DistinctOutputs ==
    \A e1 \in written : \A e2 \in written :
        (e1[1] # e2[1] /\ filesToConvert[e1[1]] # filesToConvert[e2[1]])
            => e1[2] # e2[2]

====
